---- MODULE Spec2Model ----
(***************************************************************************)
(* Model of ConfigManager (src/src/config_manager.py): the environment     *)
(* files, the timestamped backups and the store operations load, save,     *)
(* create_backup, restore_backup, validate, get and set.                   *)
(*                                                                         *)
(* A configuration value is a tagged record, one tag per Python type the   *)
(* code distinguishes with isinstance / in / []:                           *)
(*   str, int, bool, seq (list), map (dict), none (None).                  *)
(* A file's content is the token sequence json.dump writes; json.load is   *)
(* a parser of that token sequence.  Python dicts are modelled as          *)
(* functions, so the insertion order of keys is abstracted: json_dump      *)
(* emits the keys of one dict in one fixed order.                          *)
(* The file surface is reliable: open, read, write and copy succeed        *)
(* whenever the named file exists (for read) and the directory exists.     *)
(***************************************************************************)
EXTENDS Integers, Sequences, FiniteSets, TLC

(***************************************************************************)
(* Bounds of the model.                                                    *)
(***************************************************************************)
MaxClock == 1
MaxCalls == 2

(***************************************************************************)
(* Python values.                                                          *)
(***************************************************************************)
S(s) == [k |-> "str", s |-> s]
I(n) == [k |-> "int", n |-> n]
B(b) == [k |-> "bool", b |-> b]
L(l) == [k |-> "seq", l |-> l]
M(m) == [k |-> "map", m |-> m]
NoneVal == [k |-> "none"]
EmptyDict == M([key \in {} |-> NoneVal])

(***************************************************************************)
(* str methods used by the code.                                           *)
(***************************************************************************)
startswith(s, prefix) ==
    Len(s) >= Len(prefix) /\ SubSeq(s, 1, Len(prefix)) = prefix

endswith(s, suffix) ==
    Len(s) >= Len(suffix) /\ SubSeq(s, Len(s) - Len(suffix) + 1, Len(s)) = suffix

\* sub in s, for two strings
substring_of(sub, s) ==
    \E i \in 1..(Len(s) - Len(sub) + 1) : SubSeq(s, i, i + Len(sub) - 1) = sub

\* key_path.split('.')
RECURSIVE split(_)
split(s) ==
    IF \E i \in 1..Len(s) : SubSeq(s, i, i) = "."
    THEN LET i == CHOOSE i \in 1..Len(s) :
                      /\ SubSeq(s, i, i) = "."
                      /\ \A j \in 1..(i - 1) : SubSeq(s, j, j) # "."
         IN  <<SubSeq(s, 1, i - 1)>> \o split(SubSeq(s, i + 1, Len(s)))
    ELSE <<s>>

(***************************************************************************)
(* Python's `key in c` and `c[key]` for a str key and any value c.         *)
(***************************************************************************)
\* `key in c` raises TypeError when c is not a container
in_raises(c) == c.k \notin {"map", "str", "seq"}

\* `key in c` when it does not raise: dict membership, substring test on a
\* str, element equality on a list
py_in(key, c) ==
    CASE c.k = "map" -> key \in DOMAIN c.m
      [] c.k = "str" -> substring_of(key, c.s)
      [] c.k = "seq" -> \E i \in 1..Len(c.l) : c.l[i] = S(key)
      [] OTHER -> FALSE

\* the exception of `c[key]`, "" when there is none
getitem_exc(c, key) ==
    IF c.k = "map"
    THEN IF key \in DOMAIN c.m THEN "" ELSE "KeyError"
    ELSE "TypeError"

\* the exception of `c[key] = v`, "" when there is none
setitem_exc(c) == IF c.k = "map" THEN "" ELSE "TypeError"

\* the dict d after d[key] = v
dict_setitem(d, key, v) ==
    M([x \in DOMAIN d.m \cup {key} |-> IF x = key THEN v ELSE d.m[x]])

(***************************************************************************)
(* json.dump / json.load, on token sequences.                              *)
(***************************************************************************)
Tok(t) == [t |-> t]

\* mutant of dump_scalar: a bool is written as the number 1 or 0
dump_scalar_bool_as_number(v) ==
    CASE v.k = "str"  -> [t |-> "string", s |-> v.s]
      [] v.k = "int"  -> [t |-> "number", n |-> v.n]
      [] v.k = "bool" -> [t |-> "number", n |-> IF v.b THEN 1 ELSE 0]
      [] v.k = "none" -> Tok("null")

\* the token of a str, int, bool or None
dump_scalar(v) ==
    CASE v.k = "str"  -> [t |-> "string", s |-> v.s]
      [] v.k = "int"  -> [t |-> "number", n |-> v.n]
      [] v.k = "bool" -> Tok(IF v.b THEN "true" ELSE "false")
      [] v.k = "none" -> Tok("null")

RECURSIVE json_dump(_), dump_items(_, _), dump_elems(_)
json_dump(v) ==
    CASE v.k = "map"  -> <<Tok("{")>> \o dump_items(v.m, DOMAIN v.m) \o <<Tok("}")>>
      [] v.k = "seq"  -> <<Tok("[")>> \o dump_elems(v.l) \o <<Tok("]")>>
      [] OTHER        -> <<dump_scalar(v)>>

dump_items(m, keys) ==
    IF keys = {} THEN <<>>
    ELSE LET key == CHOOSE x \in keys : TRUE
             rest == keys \ {key}
         IN  <<[t |-> "string", s |-> key], Tok(":")>> \o json_dump(m[key])
               \o (IF rest = {} THEN <<>> ELSE <<Tok(",")>>)
               \o dump_items(m, rest)

dump_elems(l) ==
    IF l = <<>> THEN <<>>
    ELSE json_dump(Head(l))
           \o (IF Tail(l) = <<>> THEN <<>> ELSE <<Tok(",")>>)
           \o dump_elems(Tail(l))

ParseFail == [ok |-> FALSE]
ParseOk(v, rest) == [ok |-> TRUE, val |-> v, rest |-> rest]

RECURSIVE parse_value(_), parse_members(_, _), parse_elements(_, _)
parse_value(toks) ==
    IF toks = <<>> THEN ParseFail
    ELSE LET h == Head(toks)
             r == Tail(toks)
         IN  CASE h.t = "string" -> ParseOk(S(h.s), r)
               [] h.t = "number" -> ParseOk(I(h.n), r)
               [] h.t = "true"   -> ParseOk(B(TRUE), r)
               [] h.t = "false"  -> ParseOk(B(FALSE), r)
               [] h.t = "null"   -> ParseOk(NoneVal, r)
               [] h.t = "{" ->
                    IF r # <<>> /\ Head(r).t = "}"
                    THEN ParseOk(EmptyDict, Tail(r))
                    ELSE parse_members(r, EmptyDict)
               [] h.t = "[" ->
                    IF r # <<>> /\ Head(r).t = "]"
                    THEN ParseOk(L(<<>>), Tail(r))
                    ELSE parse_elements(r, <<>>)
               [] OTHER -> ParseFail

parse_members(toks, acc) ==
    IF Len(toks) < 3 \/ toks[1].t # "string" \/ toks[2].t # ":"
    THEN ParseFail
    ELSE LET pv == parse_value(SubSeq(toks, 3, Len(toks)))
         IN  IF ~pv.ok \/ pv.rest = <<>> THEN ParseFail
             ELSE LET acc2 == dict_setitem(acc, toks[1].s, pv.val)
                      sep  == Head(pv.rest).t
                  IN  CASE sep = "," -> parse_members(Tail(pv.rest), acc2)
                        [] sep = "}" -> ParseOk(acc2, Tail(pv.rest))
                        [] OTHER -> ParseFail

parse_elements(toks, acc) ==
    LET pv == parse_value(toks)
    IN  IF ~pv.ok \/ pv.rest = <<>> THEN ParseFail
        ELSE LET acc2 == Append(acc, pv.val)
                 sep  == Head(pv.rest).t
             IN  CASE sep = "," -> parse_elements(Tail(pv.rest), acc2)
                   [] sep = "]" -> ParseOk(L(acc2), Tail(pv.rest))
                   [] OTHER -> ParseFail

\* json.load of a whole file: the parsed value, or JSONDecodeError
json_load(bytes) ==
    LET pv == parse_value(bytes)
    IN  IF pv.ok /\ pv.rest = <<>>
        THEN [exc |-> "", val |-> pv.val]
        ELSE [exc |-> "JSONDecodeError"]

\* mutant of getenv: an undefined name reads as the empty string
getenv_or_empty(environ, name, default) ==
    IF name \in DOMAIN environ THEN S(environ[name]) ELSE S("")

(***************************************************************************)
(* _process_environment_variables: the interpolation pass of load_config.  *)
(* environ is the process environment, a function from names to strings.   *)
(***************************************************************************)
\* os.getenv(name, default)
getenv(environ, name, default) ==
    IF name \in DOMAIN environ THEN S(environ[name]) ELSE default

RECURSIVE process_dict(_, _)
process_dict(d, environ) ==
    CASE d.k = "map" -> M([key \in DOMAIN d.m |-> process_dict(d.m[key], environ)])
      [] d.k = "seq" -> L([i \in 1..Len(d.l) |-> process_dict(d.l[i], environ)])
      [] d.k = "str" /\ startswith(d.s, "${") /\ endswith(d.s, "}") ->
             getenv(environ, SubSeq(d.s, 3, Len(d.s) - 1), d)
      [] OTHER -> d

(***************************************************************************)
(* validate_config.  The result is [exc, errors]: exc is "" and errors is  *)
(* the error list when the function returns, exc names the exception when  *)
(* it raises.  is_valid is len(errors) == 0.                               *)
(***************************************************************************)
required_sections == <<"database", "api", "features", "security">>

required_structure(section) ==
    CASE section = "database" -> <<"host", "port", "name", "username", "password">>
      [] section = "api"      -> <<"base_url", "timeout", "debug">>
      [] section = "features" -> <<"payments_enabled", "email_notifications", "logging_level">>
      [] section = "security" -> <<"jwt_secret", "encryption_key", "ssl_enabled">>

Returned(errors) == [exc |-> "", errors |-> errors]
Raised(exc) == [exc |-> exc, errors |-> <<>>]

\* r1; r2
AndThen(r1, r2) ==
    IF r1.exc # "" THEN r1
    ELSE IF r2.exc # "" THEN r2
    ELSE Returned(r1.errors \o r2.errors)

\* for key in keys: if key not in config[section]: errors.append(...)
RECURSIVE check_keys(_, _, _)
check_keys(section_value, section, keys) ==
    IF keys = <<>> THEN Returned(<<>>)
    ELSE IF in_raises(section_value) THEN Raised("TypeError")
    ELSE AndThen(
           Returned(IF py_in(Head(keys), section_value) THEN <<>>
                    ELSE <<"Missing required key: " \o section \o "." \o Head(keys)>>),
           check_keys(section_value, section, Tail(keys)))

\* for section, keys in required_structure.items(): ...
RECURSIVE check_sections(_, _)
check_sections(config, sections) ==
    IF sections = <<>> THEN Returned(<<>>)
    ELSE LET section == Head(sections)
         IN  AndThen(
               IF section \notin DOMAIN config.m
               THEN Returned(<<"Missing required section: " \o section>>)
               ELSE check_keys(config.m[section], section, required_structure(section)),
               check_sections(config, Tail(sections)))

\* isinstance(v, int): bool is a subclass of int
isinstance_int(v) == v.k \in {"int", "bool"}
isinstance_bool(v) == v.k = "bool"

\* if key in section_config and not isinstance(section_config[key], T):
\*     errors.append(message)
check_type(section_config, key, is_int, message) ==
    IF in_raises(section_config) THEN Raised("TypeError")
    ELSE IF ~py_in(key, section_config) THEN Returned(<<>>)
    ELSE IF getitem_exc(section_config, key) # ""
         THEN Raised(getitem_exc(section_config, key))
    ELSE LET v == section_config.m[key]
         IN  IF (is_int /\ isinstance_int(v)) \/ (~is_int /\ isinstance_bool(v))
             THEN Returned(<<>>)
             ELSE Returned(<<message>>)

check_types(config) ==
    AndThen(
      IF "database" \in DOMAIN config.m
      THEN check_type(config.m["database"], "port", TRUE, "database.port must be an integer")
      ELSE Returned(<<>>),
      IF "api" \in DOMAIN config.m
      THEN AndThen(
             check_type(config.m["api"], "timeout", TRUE, "api.timeout must be an integer"),
             check_type(config.m["api"], "debug", FALSE, "api.debug must be a boolean"))
      ELSE Returned(<<>>))

validate_config(config) ==
    AndThen(check_sections(config, required_sections), check_types(config))

is_valid(result) == result.exc = "" /\ Len(result.errors) = 0

\* mutant of default_configs: the built-in trees are empty
default_configs_empty(env_name) == EmptyDict

(***************************************************************************)
(* The built-in default trees of _initialize_default_configs.              *)
(***************************************************************************)
default_configs(env_name) ==
    CASE env_name = "development" -> M([
           database |-> M([host |-> S("localhost"), port |-> I(5432),
                           name |-> S("myapp_dev"), username |-> S("dev_user"),
                           password |-> S("dev_pass"), pool_size |-> I(5)]),
           api |-> M([base_url |-> S("https://api.dev.myapp.com"), timeout |-> I(30),
                      debug |-> B(TRUE), rate_limit |-> I(1000)]),
           features |-> M([payments_enabled |-> B(FALSE), email_notifications |-> B(TRUE),
                           logging_level |-> S("DEBUG"), cache_enabled |-> B(TRUE)]),
           security |-> M([jwt_secret |-> S("dev_secret_key"),
                           encryption_key |-> S("dev_encryption_key"),
                           ssl_enabled |-> B(FALSE)])])
      [] env_name = "testing" -> M([
           database |-> M([host |-> S("test-db.myapp.com"), port |-> I(5432),
                           name |-> S("myapp_test"), username |-> S("test_user"),
                           password |-> S("test_pass"), pool_size |-> I(3)]),
           api |-> M([base_url |-> S("https://api.test.myapp.com"), timeout |-> I(20),
                      debug |-> B(TRUE), rate_limit |-> I(500)]),
           features |-> M([payments_enabled |-> B(TRUE), email_notifications |-> B(FALSE),
                           logging_level |-> S("INFO"), cache_enabled |-> B(TRUE)]),
           security |-> M([jwt_secret |-> S("test_secret_key"),
                           encryption_key |-> S("test_encryption_key"),
                           ssl_enabled |-> B(TRUE)])])
      [] env_name = "production" -> M([
           database |-> M([host |-> S("prod-db.myapp.com"), port |-> I(5432),
                           name |-> S("myapp_prod"), username |-> S("prod_user"),
                           password |-> S("${DB_PASSWORD}"), pool_size |-> I(20)]),
           api |-> M([base_url |-> S("https://api.myapp.com"), timeout |-> I(10),
                      debug |-> B(FALSE), rate_limit |-> I(10000)]),
           features |-> M([payments_enabled |-> B(TRUE), email_notifications |-> B(TRUE),
                           logging_level |-> S("ERROR"), cache_enabled |-> B(TRUE)]),
           security |-> M([jwt_secret |-> S("${JWT_SECRET}"),
                           encryption_key |-> S("${ENCRYPTION_KEY}"),
                           ssl_enabled |-> B(TRUE)])])

default_envs == <<"development", "testing", "production">>

(***************************************************************************)
(* load_config, get_config_value and the path assignment of                *)
(* set_config_value, as functions of the configuration directory `fl`      *)
(* (a function from environment name to file content).                     *)
(***************************************************************************)
Ok(v) == [exc |-> "", val |-> v]
Exc(e) == [exc |-> e, val |-> NoneVal]

\* a raised exception, as the outcome of a call
RaiseVal(e) == [k |-> "raise", exc |-> e]

load_config(fl, environ, environment) ==
    IF environment \notin DOMAIN fl THEN Exc("FileNotFoundError")
    ELSE LET config == json_load(fl[environment])
         IN  IF config.exc # "" THEN Exc("JSONDecodeError")
             ELSE Ok(process_dict(config.val, environ))

\* for key in keys: value = value[key]
RECURSIVE descend(_, _)
descend(value, keys) ==
    IF keys = <<>> THEN Ok(value)
    ELSE IF getitem_exc(value, Head(keys)) # ""
         THEN Exc(getitem_exc(value, Head(keys)))
         ELSE descend(value.m[Head(keys)], Tail(keys))

\* the outcome of get_config_value: the value, None, or a raised exception
get_config_value(fl, environ, environment, key_path) ==
    LET config == load_config(fl, environ, environment)
    IN  IF config.exc # ""
        THEN IF config.exc = "FileNotFoundError" THEN NoneVal
             ELSE RaiseVal(config.exc)
        ELSE LET value == descend(config.val, split(key_path))
             IN  IF value.exc = "" THEN value.val
                 ELSE IF value.exc = "KeyError" THEN NoneVal
                 ELSE RaiseVal(value.exc)

\* mutant of link_child: the new child is not stored in its parent
link_child_lost(current, key, child) == current

\* `current` after current[key] has been bound to `child`, the mapping that
\* the rest of the path was assigned in (lines 384-385: the child is a
\* reference into the tree, so the tree sees the assignment)
link_child(current, key, child) == dict_setitem(current, key, child)

\* lines 381-388 of set_config_value: `current` after the navigation to the
\* parent of the target key and the assignment, or the exception raised
RECURSIVE assign_path(_, _, _)
assign_path(current, keys, value) ==
    IF Len(keys) = 1
    THEN IF setitem_exc(current) # "" THEN Exc(setitem_exc(current))
         ELSE Ok(dict_setitem(current, keys[1], value))
    ELSE LET key == Head(keys)
         IN  IF in_raises(current) THEN Exc("TypeError")
             ELSE IF ~py_in(key, current)
             THEN IF setitem_exc(current) # "" THEN Exc(setitem_exc(current))
                  ELSE LET sub == assign_path(EmptyDict, Tail(keys), value)
                       IN  IF sub.exc # "" THEN sub
                           ELSE Ok(link_child(current, key, sub.val))
             ELSE IF getitem_exc(current, key) # ""
             THEN Exc(getitem_exc(current, key))
             ELSE LET sub == assign_path(current.m[key], Tail(keys), value)
                  IN  IF sub.exc # "" THEN sub
                      ELSE Ok(link_child(current, key, sub.val))

(***************************************************************************)
(* Backups: the backup directory `bk` is a function from file name to      *)
(* content.                                                                *)
(***************************************************************************)
\* datetime.now().strftime("%Y%m%d_%H%M%S") at clock second n of one minute
strftime(n) == "20240101_0000" \o (IF n < 10 THEN "0" ELSE "") \o ToString(n)

\* mutant of backup_filename: the file name does not carry the timestamp
backup_filename_without_timestamp(environment, timestamp) ==
    environment \o "_backup_.json"

backup_filename(environment, timestamp) ==
    environment \o "_backup_" \o timestamp \o ".json"

\* the file surface after `d[name] = content`
write_file(d, name, content) ==
    [x \in DOMAIN d \cup {name} |-> IF x = name THEN content ELSE d[x]]

\* mutant of create_backup: an existing backup file is not overwritten
create_backup_keep_existing(fl, bk, environment, now) ==
    IF environment \notin DOMAIN fl
    THEN [ret |-> FALSE, backups |-> bk]
    ELSE IF backup_filename(environment, strftime(now)) \in DOMAIN bk
    THEN [ret |-> TRUE, backups |-> bk]
    ELSE [ret |-> TRUE,
          backups |-> write_file(bk, backup_filename(environment, strftime(now)),
                                 fl[environment])]

\* create_backup: its return value and the backup directory after it
create_backup(fl, bk, environment, now) ==
    IF environment \notin DOMAIN fl
    THEN [ret |-> FALSE, backups |-> bk]
    ELSE [ret |-> TRUE,
          backups |-> write_file(bk, backup_filename(environment, strftime(now)),
                                 fl[environment])]

\* the backup files list_backups(environment) globs (lines 422-429)
backup_files(bk, environment) ==
    {f \in DOMAIN bk : /\ startswith(f, environment \o "_backup_")
                       /\ endswith(f, ".json")}

\* mutant of save_rejects: the validator's error list is not looked at
save_rejects_ignores_errors(result) == result.exc # ""

\* save_config, lines 211-214 and 226-228: the save is given up when the
\* validator raises or reports errors
save_rejects(result) == result.exc # "" \/ Len(result.errors) # 0

\* mutant of save_backs_up: save never makes a backup
save_backs_up_never(fl, environment, create_backup_flag) == FALSE

\* save_config, line 217
save_backs_up(fl, environment, create_backup_flag) ==
    create_backup_flag /\ environment \in DOMAIN fl

(***************************************************************************)
(* Inputs of the calls.                                                    *)
(***************************************************************************)
\* tests/test_config_manager.py, setUp
sample_config == M([
    database |-> M([host |-> S("localhost"), port |-> I(5432), name |-> S("test_db"),
                    username |-> S("test_user"), password |-> S("test_pass")]),
    api |-> M([base_url |-> S("https://api.test.com"), timeout |-> I(30),
               debug |-> B(TRUE)]),
    features |-> M([payments_enabled |-> B(FALSE), email_notifications |-> B(TRUE),
                    logging_level |-> S("DEBUG")]),
    security |-> M([jwt_secret |-> S("test_secret"), encryption_key |-> S("test_key"),
                    ssl_enabled |-> B(FALSE)])])

\* sample_config with a placeholder and a list
placeholder_config ==
    dict_setitem(
      dict_setitem(sample_config, "database",
                   dict_setitem(sample_config.m["database"], "password",
                                S("${DB_PASSWORD}"))),
      "hosts", L(<<S("a.example"), S("${DB_PASSWORD}")>>))

\* tests/test_config_manager.py, test_config_validation
invalid_config == M([
    api |-> M([base_url |-> S("https://api.test.com"), timeout |-> I(30),
               debug |-> B(TRUE)])])

\* sample_config with a required section bound to an integer
nonmapping_config == dict_setitem(sample_config, "database", I(5))

SaveTrees == {sample_config, placeholder_config, invalid_config, nonmapping_config}

\* environments the calls are made on: one default environment and one that
\* does not exist after construction unless it existed before
OpEnvs == {"production", "staging"}

SetPaths == {"database.host", "cache.ttl.seconds", "database.host.x", "api"}
SetValues == {S("new-host"), S("${DB_PASSWORD}")}
GetPaths == {"database.host", "database.password", "cache.ttl.seconds",
             "database.host.x", "database.nokey"}

\* the process environment: DB_PASSWORD is defined or not
Environs == {[x \in {} |-> ""], [x \in {"DB_PASSWORD"} |-> "s3cret"]}

\* content that json.load rejects
Malformed == <<Tok("{")>>

\* the configuration directory before construction
NoFiles == [x \in {} |-> <<>>]
PreFiles == {NoFiles, [x \in {"staging"} |-> Malformed]}

\* the callers; a call of caller 1 never overlaps another call of caller 1
Procs == {1, 2}

Timestamps == {strftime(n) : n \in 0..MaxClock}

(***************************************************************************)
(* State.                                                                  *)
(***************************************************************************)
VARIABLES
    files,      \* configuration directory: environment name -> file content
    backups,    \* backup directory: file name -> file content
    clock,      \* the wall clock, in seconds
    environ,    \* the process environment
    callers,    \* the callers that use the store
    pc,         \* per caller: "idle", or the statement its call is at
    call,       \* per caller: the call in progress, or its last call
    ncalls,     \* number of calls begun
    history     \* what the calls so far have overwritten (see NoteOverwrite)

vars == <<files, backups, clock, environ, callers, pc, call, ncalls, history>>

Pending == [k |-> "pending"]

\* history records, for the properties only: `overwritten` holds the pairs
\* <<environment, content>> of the live files that save_config with
\* create_backup=True, set_config_value or restore_backup wrote over, and
\* `collided` the environments of which a backup was made in a second in
\* which a backup of theirs already existed, and `written` the pair
\* <<environment, content>> of the last json.dump of save_config
NoHistory == [overwritten |-> {}, collided |-> {}, written |-> <<>>]

\* a backup of the environment is made now (create_backup, lines 246-251)
NoteBackup(environment) ==
    history' = [history EXCEPT !.collided =
                  IF /\ environment \in DOMAIN files
                     /\ (environment \o "_backup_" \o strftime(clock) \o ".json")
                          \in DOMAIN backups
                  THEN @ \cup {environment} ELSE @]

\* the live file of the environment is written now
NoteOverwrite(environment, counted) ==
    history' = [history EXCEPT !.overwritten =
                  IF counted /\ environment \in DOMAIN files
                  THEN @ \cup {<<environment, files[environment]>>} ELSE @]

\* json.dump of save_config writes `content` to the live file now
NoteWrite(environment, content, counted) ==
    history' = [history EXCEPT !.overwritten =
                  IF counted /\ environment \in DOMAIN files
                  THEN @ \cup {<<environment, files[environment]>>} ELSE @,
                               !.written = <<environment, content>>]

NoCall(fl, bk) ==
    [op |-> "none", env |-> "", tree |-> NoneVal, path |-> "", value |-> NoneVal,
     flag |-> FALSE, ts |-> "", arg |-> "", pre_files |-> fl, pre_backups |-> bk,
     log |-> <<>>, ret |-> NoneVal]

\* the record of a call that begins in the current state
NewCall(op, env, tree, path, value, flag, ts) ==
    [op |-> op, env |-> env, tree |-> tree, path |-> path, value |-> value,
     flag |-> flag, ts |-> ts, arg |-> "", pre_files |-> files,
     pre_backups |-> backups, log |-> <<>>, ret |-> Pending]

\* mutant of initialize_default_configs: the defaults are written whether
\* the file exists or not
initialize_default_configs_overwriting(fl, envs) ==
    [x \in DOMAIN fl \cup {envs[i] : i \in DOMAIN envs} |->
        IF x \in {envs[i] : i \in DOMAIN envs}
        THEN json_dump(default_configs(x)) ELSE fl[x]]

\* _initialize_default_configs, lines 146-151
RECURSIVE initialize_default_configs(_, _)
initialize_default_configs(fl, envs) ==
    IF envs = <<>> THEN fl
    ELSE initialize_default_configs(
           IF Head(envs) \notin DOMAIN fl
           THEN write_file(fl, Head(envs), json_dump(default_configs(Head(envs))))
           ELSE fl,
           Tail(envs))

InitStore ==
    /\ \E pre \in PreFiles : files = initialize_default_configs(pre, default_envs)
    /\ backups = [x \in {} |-> <<>>]
    /\ clock = 0
    /\ environ \in Environs
    /\ pc = [p \in Procs |-> "idle"]
    /\ call = [p \in Procs |-> NoCall(files, backups)]
    /\ ncalls = 0
    /\ history = NoHistory

Init == InitStore /\ callers = {1}

(***************************************************************************)
(* Calls.                                                                  *)
(***************************************************************************)
CanCall(p) == p \in callers /\ pc[p] = "idle" /\ ncalls < MaxCalls

\* the call of p returns r, having changed no file
Return(p, rec, r) ==
    /\ pc' = [pc EXCEPT ![p] = "idle"]
    /\ call' = [call EXCEPT ![p] = [rec EXCEPT !.ret = r]]
    /\ UNCHANGED <<files, backups>>

\* mutant of EnterSave: the backup is made before the validation
EnterSaveBackupBeforeValidation(p, rec) ==
    LET b == IF save_backs_up(files, rec.env, rec.flag)
             THEN create_backup(files, backups, rec.env, clock).backups
             ELSE backups
    IN  /\ backups' = b
        /\ files' = files
        /\ IF save_rejects(validate_config(rec.tree))
           THEN /\ pc' = [pc EXCEPT ![p] = "idle"]
                /\ call' = [call EXCEPT ![p] = [rec EXCEPT !.ret = B(FALSE)]]
           ELSE /\ pc' = [pc EXCEPT ![p] = "save_write"]
                /\ call' = [call EXCEPT ![p] = rec]

\* save_config, lines 207-218: validation and the choice of the next step
EnterSave(p, rec) ==
    IF save_rejects(validate_config(rec.tree))
    THEN Return(p, rec, B(FALSE))
    ELSE /\ pc' = [pc EXCEPT ![p] =
                     IF save_backs_up(files, rec.env, rec.flag)
                     THEN "save_backup" ELSE "save_write"]
         /\ call' = [call EXCEPT ![p] = rec]
         /\ UNCHANGED <<files, backups>>

\* mutant of SaveCall: the backup is made whatever create_backup says
SaveCallBacksUpAlways(p, environment, config, flag) ==
    /\ CanCall(p)
    /\ ncalls' = ncalls + 1
    /\ LET rec == NewCall("save", environment, config, "", NoneVal, flag, "")
       IN  IF save_rejects(validate_config(config))
           THEN Return(p, rec, B(FALSE))
           ELSE /\ pc' = [pc EXCEPT ![p] =
                            IF environment \in DOMAIN files
                            THEN "save_backup" ELSE "save_write"]
                /\ call' = [call EXCEPT ![p] = rec]
                /\ UNCHANGED <<files, backups>>
    /\ UNCHANGED <<clock, environ, callers, history>>

SaveCall(p, environment, config, flag) ==
    /\ CanCall(p)
    /\ ncalls' = ncalls + 1
    /\ EnterSave(p, NewCall("save", environment, config, "", NoneVal, flag, ""))
    /\ UNCHANGED <<clock, environ, callers, history>>

\* mutant of SaveBackup: save goes on to the write without the backup
SaveBackupSkipped(p) ==
    /\ pc[p] = "save_backup"
    /\ pc' = [pc EXCEPT ![p] = "save_write"]
    /\ UNCHANGED <<files, backups, clock, environ, callers, call, ncalls, history>>

\* save_config, line 218: self.create_backup(environment)
SaveBackup(p) ==
    /\ pc[p] = "save_backup"
    /\ LET b == create_backup(files, backups, call[p].env, clock)
       IN  /\ backups' = b.backups
           /\ call' = [call EXCEPT ![p].log =
                         IF b.ret THEN Append(@, "backup") ELSE @]
    /\ pc' = [pc EXCEPT ![p] = "save_write"]
    /\ NoteBackup(call[p].env)
    /\ UNCHANGED <<files, clock, environ, callers, ncalls>>

\* save_config, lines 220-224: json.dump(config, file); return True
SaveWrite(p) ==
    /\ pc[p] = "save_write"
    /\ files' = write_file(files, call[p].env, json_dump(call[p].tree))
    /\ call' = [call EXCEPT ![p].log = Append(@, "live"), ![p].ret = B(TRUE)]
    /\ pc' = [pc EXCEPT ![p] = "idle"]
    /\ NoteWrite(call[p].env, json_dump(call[p].tree), call[p].flag)
    /\ UNCHANGED <<backups, clock, environ, callers, ncalls>>

\* set_config_value, lines 376-395
SetCall(p, environment, key_path, value) ==
    /\ CanCall(p)
    /\ ncalls' = ncalls + 1
    /\ LET rec == NewCall("set", environment, NoneVal, key_path, value, TRUE, "")
           config == load_config(files, environ, environment)
       IN  IF config.exc # "" THEN Return(p, rec, B(FALSE))
           ELSE LET assigned == assign_path(config.val, split(key_path), value)
                IN  IF assigned.exc # "" THEN Return(p, rec, B(FALSE))
                    ELSE EnterSave(p, [rec EXCEPT !.tree = assigned.val])
    /\ UNCHANGED <<clock, environ, callers, history>>

\* mutant of BackupCall: the call reports success whether or not a copy was made
BackupCallReportsSuccess(p, environment) ==
    /\ CanCall(p)
    /\ ncalls' = ncalls + 1
    /\ LET rec == NewCall("backup", environment, NoneVal, "", NoneVal, FALSE, "")
           b == create_backup(files, backups, environment, clock)
       IN  /\ backups' = b.backups
           /\ call' = [call EXCEPT ![p] =
                         [rec EXCEPT !.ret = B(TRUE),
                                     !.log = IF b.ret THEN <<"backup">> ELSE <<>>]]
    /\ NoteBackup(environment)
    /\ UNCHANGED <<files, clock, environ, callers, pc>>

\* create_backup called directly
BackupCall(p, environment) ==
    /\ CanCall(p)
    /\ ncalls' = ncalls + 1
    /\ LET rec == NewCall("backup", environment, NoneVal, "", NoneVal, FALSE, "")
           b == create_backup(files, backups, environment, clock)
       IN  /\ backups' = b.backups
           /\ call' = [call EXCEPT ![p] =
                         [rec EXCEPT !.ret = B(b.ret),
                                     !.log = IF b.ret THEN <<"backup">> ELSE <<>>]]
    /\ NoteBackup(environment)
    /\ UNCHANGED <<files, clock, environ, callers, pc>>

\* mutant of RestoreCall: any backup of the environment lets the restore go on
RestoreCallAnyBackup(p, environment, backup_timestamp) ==
    /\ CanCall(p)
    /\ ncalls' = ncalls + 1
    /\ LET rec == NewCall("restore", environment, NoneVal, "", NoneVal, FALSE,
                          backup_timestamp)
       IN  IF backup_files(backups, environment) = {}
           THEN Return(p, rec, B(FALSE))
           ELSE /\ pc' = [pc EXCEPT ![p] = "restore_backup"]
                /\ call' = [call EXCEPT ![p] = rec]
                /\ UNCHANGED <<files, backups>>
    /\ UNCHANGED <<clock, environ, callers, history>>

\* restore_backup, lines 271-276
RestoreCall(p, environment, backup_timestamp) ==
    /\ CanCall(p)
    /\ ncalls' = ncalls + 1
    /\ LET rec == NewCall("restore", environment, NoneVal, "", NoneVal, FALSE,
                          backup_timestamp)
       IN  IF backup_filename(environment, backup_timestamp) \notin DOMAIN backups
           THEN Return(p, rec, B(FALSE))
           ELSE /\ pc' = [pc EXCEPT ![p] = "restore_backup"]
                /\ call' = [call EXCEPT ![p] = rec]
                /\ UNCHANGED <<files, backups>>
    /\ UNCHANGED <<clock, environ, callers, history>>

\* mutant of RestoreBackup: restore goes on to the copy without a backup
RestoreBackupSkipped(p) ==
    /\ pc[p] = "restore_backup"
    /\ pc' = [pc EXCEPT ![p] = "restore_copy"]
    /\ UNCHANGED <<files, backups, clock, environ, callers, call, ncalls, history>>

\* restore_backup, line 281: self.create_backup(environment), result unused
RestoreBackup(p) ==
    /\ pc[p] = "restore_backup"
    /\ LET b == create_backup(files, backups, call[p].env, clock)
       IN  /\ backups' = b.backups
           /\ call' = [call EXCEPT ![p].log =
                         IF b.ret THEN Append(@, "backup") ELSE @]
    /\ pc' = [pc EXCEPT ![p] = "restore_copy"]
    /\ NoteBackup(call[p].env)
    /\ UNCHANGED <<files, clock, environ, callers, ncalls>>

\* restore_backup, lines 283-290: shutil.copy2(backup_file, config_file)
RestoreCopy(p) ==
    /\ pc[p] = "restore_copy"
    /\ LET backup_file == backup_filename(call[p].env, call[p].ts)
       IN  IF backup_file \in DOMAIN backups
           THEN /\ files' = write_file(files, call[p].env, backups[backup_file])
                /\ call' = [call EXCEPT ![p].log = Append(@, "live"),
                                        ![p].ret = B(TRUE)]
           ELSE /\ files' = files
                /\ call' = [call EXCEPT ![p].ret = B(FALSE)]
    /\ pc' = [pc EXCEPT ![p] = "idle"]
    /\ NoteOverwrite(call[p].env,
                     backup_filename(call[p].env, call[p].ts) \in DOMAIN backups)
    /\ UNCHANGED <<backups, clock, environ, callers, ncalls>>

\* load_config: the tree, or the exception it raises
LoadCall(p, environment) ==
    /\ CanCall(p)
    /\ ncalls' = ncalls + 1
    /\ LET config == load_config(files, environ, environment)
       IN  Return(p, NewCall("load", environment, NoneVal, "", NoneVal, FALSE, ""),
                  IF config.exc # "" THEN RaiseVal(config.exc) ELSE config.val)
    /\ UNCHANGED <<clock, environ, callers, history>>

GetCall(p, environment, key_path) ==
    /\ CanCall(p)
    /\ ncalls' = ncalls + 1
    /\ Return(p, NewCall("get", environment, NoneVal, key_path, NoneVal, FALSE, ""),
              get_config_value(files, environ, environment, key_path))
    /\ UNCHANGED <<clock, environ, callers, history>>

\* a second passes
Tick ==
    /\ clock < MaxClock
    /\ clock' = clock + 1
    /\ UNCHANGED <<files, backups, environ, callers, pc, call, ncalls, history>>

Next ==
    \/ \E p \in Procs, e \in OpEnvs, t \in SaveTrees, f \in BOOLEAN : SaveCall(p, e, t, f)
    \/ \E p \in Procs : SaveBackup(p)
    \/ \E p \in Procs : SaveWrite(p)
    \/ \E p \in Procs, e \in OpEnvs, kp \in SetPaths, v \in SetValues : SetCall(p, e, kp, v)
    \/ \E p \in Procs, e \in OpEnvs : BackupCall(p, e)
    \/ \E p \in Procs, e \in OpEnvs, ts \in Timestamps : RestoreCall(p, e, ts)
    \/ \E p \in Procs : RestoreBackup(p)
    \/ \E p \in Procs : RestoreCopy(p)
    \/ \E p \in Procs, e \in OpEnvs : LoadCall(p, e)
    \/ \E p \in Procs, e \in OpEnvs, kp \in GetPaths : GetCall(p, e, kp)
    \/ Tick

Spec == Init /\ [][Next]_vars

\* the store constructed on an empty configuration directory
FreshInit ==
    /\ Init
    /\ files = initialize_default_configs(NoFiles, default_envs)

FreshSpec == FreshInit /\ [][Next]_vars

(***************************************************************************)
(* Two callers on one environment.  Nothing in the class locks a file, so  *)
(* the steps of two calls interleave at every file operation; the write of *)
(* line 220-221 is then two steps, the open that truncates the file and    *)
(* the json.dump that writes into it.  (With one caller nothing can fall   *)
(* between the two, and SaveWrite does both.)                              *)
(***************************************************************************)
RaceEnv == "production"
RacePaths == {"database.host", "cache.ttl.seconds"}
RaceValues == {S("new-host")}

\* save_config, line 220: open(config_file, 'w') creates or truncates the file
SaveOpen(p) ==
    /\ pc[p] = "save_write"
    /\ files' = write_file(files, call[p].env, <<>>)
    /\ pc' = [pc EXCEPT ![p] = "save_dump"]
    /\ NoteOverwrite(call[p].env, call[p].flag)
    /\ UNCHANGED <<backups, clock, environ, callers, call, ncalls>>

\* what a file holds after `text` is written from its start through a handle
\* that was opened before the file got the content `old`
overwrite_from_start(old, text) ==
    text \o SubSeq(old, Len(text) + 1, Len(old))

\* save_config, lines 221-224: json.dump(config, file), close; return True
SaveDump(p) ==
    /\ pc[p] = "save_dump"
    /\ files' = write_file(files, call[p].env,
                           overwrite_from_start(files[call[p].env],
                                                json_dump(call[p].tree)))
    /\ call' = [call EXCEPT ![p].log = Append(@, "live"), ![p].ret = B(TRUE)]
    /\ pc' = [pc EXCEPT ![p] = "idle"]
    /\ NoteWrite(call[p].env, json_dump(call[p].tree), FALSE)
    /\ UNCHANGED <<backups, clock, environ, callers, ncalls>>

RaceInit ==
    /\ InitStore
    /\ files = initialize_default_configs(NoFiles, default_envs)
    /\ callers = Procs

RaceNext ==
    \/ \E p \in Procs, kp \in RacePaths, v \in RaceValues : SetCall(p, RaceEnv, kp, v)
    \/ \E p \in Procs : SaveBackup(p)
    \/ \E p \in Procs : SaveOpen(p)
    \/ \E p \in Procs : SaveDump(p)
    \/ Tick

RaceSpec == RaceInit /\ [][RaceNext]_vars

TypeOK ==
    /\ clock \in 0..MaxClock
    /\ ncalls \in 0..MaxCalls
    /\ \A p \in Procs : pc[p] \in {"idle", "called", "save_backup", "save_write",
                                   "save_dump", "restore_backup", "restore_copy"}

(***************************************************************************)
(* Single calls on given inputs.  The operations below do not depend on    *)
(* what earlier calls wrote, so they are checked one call at a time: the   *)
(* initial state holds the store and a call that is about to run           *)
(* (pc = "called"), drawn from the input sets, and the one step runs it.   *)
(***************************************************************************)
Absent == [k |-> "absent"]

\* del d[key] on a copy
dict_without(d, key) == M([x \in DOMAIN d.m \ {key} |-> d.m[x]])

with_section(config, section, v) ==
    IF v = Absent THEN config ELSE dict_setitem(config, section, v)

\* what the four required sections are bound to in the validated trees
DatabaseValues ==
    LET db == sample_config.m["database"]
    IN  {db, Absent, dict_without(db, "password"),
         dict_setitem(db, "port", S("5432")), dict_setitem(db, "port", B(TRUE)),
         dict_setitem(db, "port", L(<<I(5432)>>)),
         dict_without(dict_setitem(db, "port", S("5432")), "password"),
         I(5), S("host port name username password")}

ApiValues ==
    LET api == sample_config.m["api"]
    IN  {api, Absent, dict_without(api, "debug"),
         dict_setitem(api, "timeout", S("30")), dict_setitem(api, "timeout", B(FALSE)),
         dict_setitem(api, "debug", I(1)), dict_setitem(api, "debug", S("yes"))}

FeaturesValues ==
    LET features == sample_config.m["features"]
    IN  {features, Absent, dict_without(features, "logging_level"),
         S("payments_enabled email_notifications logging_level"),
         L(<<S("payments_enabled"), S("email_notifications"), S("logging_level")>>)}

SecurityValues ==
    {sample_config.m["security"], Absent, EmptyDict}

ValidateTrees ==
    {with_section(with_section(with_section(with_section(EmptyDict,
         "database", d), "api", a), "features", f), "security", s) :
       d \in DatabaseValues, a \in ApiValues, f \in FeaturesValues,
       s \in SecurityValues}

\* a call that is about to run
Called(op, env, arg, tree) ==
    [NoCall(files, backups) EXCEPT !.op = op, !.env = env, !.arg = arg,
                                   !.tree = tree, !.ret = Pending]

\* the store after construction on a directory `pre`, caller 1 about to run rec
InitCalled(pre, bk) ==
    /\ files = initialize_default_configs(pre, default_envs)
    /\ backups = bk
    /\ clock = 0
    /\ callers = {1}
    /\ ncalls = 0
    /\ history = NoHistory
    /\ pc = [p \in Procs |-> IF p = 1 THEN "called" ELSE "idle"]

NoBackups == [x \in {} |-> <<>>]

InitValidate ==
    /\ InitCalled(NoFiles, NoBackups)
    /\ environ = [x \in {} |-> ""]
    /\ \E t \in ValidateTrees :
         call = [p \in Procs |-> IF p = 1 THEN Called("validate", "", "", t)
                                 ELSE NoCall(files, backups)]

Running(p, op) == p \in callers /\ pc[p] = "called" /\ call[p].op = op

\* the call of p returns r
Returns(p, r) ==
    /\ pc' = [pc EXCEPT ![p] = "idle"]
    /\ call' = [call EXCEPT ![p].ret = r]
    /\ UNCHANGED <<files, backups, clock, environ, callers, ncalls, history>>

\* validate_config, line 337: return len(errors) == 0, errors
ValidateCall(p) ==
    /\ Running(p, "validate")
    /\ LET result == validate_config(call[p].tree)
       IN  Returns(p, IF result.exc # "" THEN RaiseVal(result.exc)
                      ELSE [k |-> "tuple", is_valid |-> Len(result.errors) = 0,
                            errors |-> result.errors])

(***************************************************************************)
(* compare_configs.                                                        *)
(***************************************************************************)
\* the number a bool or an int compares as
num(v) == IF v.k = "int" THEN v.n ELSE IF v.b THEN 1 ELSE 0

\* a == b of Python on loaded values: True == 1 and False == 0
RECURSIVE py_eq(_, _)
py_eq(a, b) ==
    CASE a.k \in {"int", "bool"} /\ b.k \in {"int", "bool"} -> num(a) = num(b)
      [] a.k = "str" /\ b.k = "str" -> a.s = b.s
      [] a.k = "none" /\ b.k = "none" -> TRUE
      [] a.k = "seq" /\ b.k = "seq" ->
             /\ Len(a.l) = Len(b.l)
             /\ \A i \in 1..Len(a.l) : py_eq(a.l[i], b.l[i])
      [] a.k = "map" /\ b.k = "map" ->
             /\ DOMAIN a.m = DOMAIN b.m
             /\ \A x \in DOMAIN a.m : py_eq(a.m[x], b.m[x])
      [] OTHER -> FALSE

\* d.update(e)
dict_update(d, e) ==
    M([x \in DOMAIN d.m \cup DOMAIN e.m |-> IF x \in DOMAIN e.m THEN e.m[x] ELSE d.m[x]])

\* {label1: v1, label2: v2}
dict_of_two(label1, v1, label2, v2) ==
    dict_setitem(dict_setitem(EmptyDict, label1, v1), label2, v2)

\* compare_dicts, lines 450-460: the entries it adds to `differences` for the
\* keys of `keys`, visited in some order
RECURSIVE compare_dicts(_, _, _, _, _, _)
compare_dicts(d1, d2, path, keys, env1, env2) ==
    IF keys = {} THEN EmptyDict
    ELSE LET key == CHOOSE x \in keys : TRUE
             current_path == IF path # "" THEN path \o "." \o key ELSE key
             added ==
                 IF key \notin DOMAIN d1.m
                 THEN dict_setitem(EmptyDict, current_path,
                        dict_of_two("in_" \o env2, d2.m[key], "in_" \o env1, S("MISSING")))
                 ELSE IF key \notin DOMAIN d2.m
                 THEN dict_setitem(EmptyDict, current_path,
                        dict_of_two("in_" \o env1, d1.m[key], "in_" \o env2, S("MISSING")))
                 ELSE IF d1.m[key].k = "map" /\ d2.m[key].k = "map"
                 THEN compare_dicts(d1.m[key], d2.m[key], current_path,
                                    DOMAIN d1.m[key].m \cup DOMAIN d2.m[key].m, env1, env2)
                 ELSE IF ~py_eq(d1.m[key], d2.m[key])
                 THEN dict_setitem(EmptyDict, current_path,
                        dict_of_two("in_" \o env1, d1.m[key], "in_" \o env2, d2.m[key]))
                 ELSE EmptyDict
         IN  dict_update(added,
                         compare_dicts(d1, d2, path, keys \ {key}, env1, env2))

\* compare_configs, lines 444-468; d1.keys() raises on a value that is no dict
compare_configs(fl, environ_, env1, env2) ==
    LET config1 == load_config(fl, environ_, env1)
        config2 == load_config(fl, environ_, env2)
    IN  IF config1.exc # "" \/ config2.exc # "" THEN EmptyDict
        ELSE IF config1.val.k # "map" \/ config2.val.k # "map" THEN EmptyDict
        ELSE compare_dicts(config1.val, config2.val, "",
                           DOMAIN config1.val.m \cup DOMAIN config2.val.m, env1, env2)

\* the trees of the compared environments
CompareTrees ==
    {M([api |-> M([timeout |-> I(1), debug |-> B(TRUE)]), name |-> S("s3cret")]),
     M([api |-> M([timeout |-> B(TRUE), debug |-> I(1)]), name |-> S("s3cret")]),
     M([api |-> M([timeout |-> I(2)]), name |-> S("${DB_PASSWORD}"),
        hosts |-> L(<<S("a.example"), I(1)>>)]),
     M([api |-> I(5), name |-> S("MISSING"), hosts |-> L(<<S("a.example"), B(TRUE)>>)]),
     dict_setitem(M([api |-> M([timeout |-> I(1), debug |-> B(TRUE)])]),
                  "api.timeout", I(7)),
     EmptyDict}

CompareDirs ==
    {[x \in {"staging", "qa"} |-> json_dump(IF x = "staging" THEN a ELSE b)] :
        a \in CompareTrees, b \in CompareTrees}
    \cup {[x \in {"staging"} |-> Malformed]}

CompareEnvs == {"development", "staging", "qa", "nofile"}

InitCompare ==
    /\ \E pre \in CompareDirs : InitCalled(pre, NoBackups)
    /\ environ \in Environs
    /\ \E env1 \in CompareEnvs, env2 \in CompareEnvs :
         call = [p \in Procs |-> IF p = 1 THEN Called("compare", env1, env2, NoneVal)
                                 ELSE NoCall(files, backups)]

CompareCall(p) ==
    /\ Running(p, "compare")
    /\ Returns(p, compare_configs(files, environ, call[p].env, call[p].arg))

(***************************************************************************)
(* _process_environment_variables called on a tree.                        *)
(***************************************************************************)
InterpolateTrees ==
    {EmptyDict, sample_config, placeholder_config, default_configs("production"),
     dict_setitem(
       M([a |-> S("${DB_PASSWORD}x"), b |-> S("x${DB_PASSWORD}"), c |-> S("${}"),
          d |-> S("$DB_PASSWORD"), e |-> S("{DB_PASSWORD}"), f |-> I(1),
          g |-> B(TRUE), i |-> S("${DB_PASSWORD}${DB_PASSWORD}"), j |-> NoneVal,
          h |-> L(<<L(<<S("${DB_PASSWORD}"), I(2)>>), M([kk |-> S("${HOME}")]),
                    S("${HOME}")>>)]),
       "${DB_PASSWORD}", S("${DB_PASSWORD}"))}

InterpolateEnvirons ==
    Environs \cup {[x \in {"DB_PASSWORD", "HOME"} |->
                      IF x = "HOME" THEN "/root" ELSE ""],
                   [x \in {"DB_PASSWORD", "HOME"} |->
                      IF x = "HOME" THEN "/root" ELSE "${HOME}"]}

InitInterpolate ==
    /\ InitCalled(NoFiles, NoBackups)
    /\ environ \in InterpolateEnvirons
    /\ \E t \in InterpolateTrees :
         call = [p \in Procs |-> IF p = 1 THEN Called("interpolate", "", "", t)
                                 ELSE NoCall(files, backups)]

\* _process_environment_variables, lines 180-193
InterpolateCall(p) ==
    /\ Running(p, "interpolate")
    /\ Returns(p, process_dict(call[p].tree, environ))

(***************************************************************************)
(* export_config.                                                          *)
(***************************************************************************)
ascii_lowercase == "abcdefghijklmnopqrstuvwxyz"
ascii_uppercase == "ABCDEFGHIJKLMNOPQRSTUVWXYZ"

\* the character of `to` at the place c has in `from`, c when it has none
translate(c, from, to) ==
    IF \E i \in 1..Len(from) : SubSeq(from, i, i) = c
    THEN LET i == CHOOSE i \in 1..Len(from) : SubSeq(from, i, i) = c
         IN  SubSeq(to, i, i)
    ELSE c

\* str.upper() and str.lower()
RECURSIVE upper(_)
upper(s) ==
    IF Len(s) = 0 THEN ""
    ELSE translate(SubSeq(s, 1, 1), ascii_lowercase, ascii_uppercase)
           \o upper(SubSeq(s, 2, Len(s)))

RECURSIVE lower(_)
lower(s) ==
    IF Len(s) = 0 THEN ""
    ELSE translate(SubSeq(s, 1, 1), ascii_uppercase, ascii_lowercase)
           \o lower(SubSeq(s, 2, Len(s)))

\* sep.join(strings)
RECURSIVE join(_, _)
join(strings, sep) ==
    IF strings = <<>> THEN ""
    ELSE IF Len(strings) = 1 THEN strings[1]
    ELSE strings[1] \o sep \o join(Tail(strings), sep)

\* repr(v) and str(v) of a loaded value; repr of a str is written with
\* single quotes (no escapes are modelled)
RECURSIVE py_repr(_), repr_elems(_), repr_items(_, _)
py_repr(v) ==
    CASE v.k = "str"  -> "'" \o v.s \o "'"
      [] v.k = "int"  -> ToString(v.n)
      [] v.k = "bool" -> IF v.b THEN "True" ELSE "False"
      [] v.k = "none" -> "None"
      [] v.k = "seq"  -> "[" \o join(repr_elems(v.l), ", ") \o "]"
      [] v.k = "map"  -> "{" \o join(repr_items(v.m, DOMAIN v.m), ", ") \o "}"

repr_elems(l) ==
    IF l = <<>> THEN <<>> ELSE <<py_repr(Head(l))>> \o repr_elems(Tail(l))

repr_items(m, keys) ==
    IF keys = {} THEN <<>>
    ELSE LET key == CHOOSE x \in keys : TRUE
         IN  <<"'" \o key \o "': " \o py_repr(m[key])>> \o repr_items(m, keys \ {key})

py_str(v) == IF v.k = "str" THEN v.s ELSE py_repr(v)

\* mutant of flatten_prefix: the key goes into the prefix as it is written
flatten_prefix_as_written(prefix, key) == prefix \o key \o "_"

\* f"{prefix}{key.upper()}_"
flatten_prefix(prefix, key) == prefix \o upper(key) \o "_"

\* flatten_dict, lines 490-495: the lines it appends for the items of `keys`
RECURSIVE flatten_dict(_, _, _)
flatten_dict(d, prefix, keys) ==
    IF keys = {} THEN <<>>
    ELSE LET key == CHOOSE x \in keys : TRUE
             value == d.m[key]
         IN  (IF value.k = "map"
              THEN flatten_dict(value, flatten_prefix(prefix, key), DOMAIN value.m)
              ELSE <<prefix \o upper(key) \o "=" \o py_str(value)>>)
             \o flatten_dict(d, prefix, keys \ {key})

\* the text json.dumps returns, as its tokens
json_dumps(config) == [k |-> "json_text", toks |-> json_dump(config)]

\* the text yaml.dump returns; it is kept as the document it renders, no
\* property reads it
yaml_dump(config) == [k |-> "yaml_text", doc |-> config]

\* export_config, lines 481-505: every exception ends in `return ""`
export_config(fl, environ_, environment, format) ==
    LET config == load_config(fl, environ_, environment)
    IN  IF config.exc # "" THEN S("")
        ELSE IF lower(format) = "json" THEN json_dumps(config.val)
        ELSE IF lower(format) = "yaml" THEN yaml_dump(config.val)
        ELSE IF lower(format) = "env"
             THEN IF config.val.k # "map" THEN S("")
                  ELSE S(join(flatten_dict(config.val, "", DOMAIN config.val.m), "\n"))
        ELSE S("")

ExportTrees ==
    {sample_config, EmptyDict,
     M([database |-> M([password |-> S("${DB_PASSWORD}")])]),
     M([cache |-> M([ttl |-> M([seconds |-> I(5)])]),
        hosts |-> L(<<S("a"), I(1), B(TRUE), M([kk |-> NoneVal])>>),
        Mixed_Key9 |-> B(FALSE), empty |-> EmptyDict, nothing |-> NoneVal,
        neg |-> I(-3)]),
     M([tls |-> M([cert |-> S("first\nsecond")]), port |-> I(443)])}

ExportDirs ==
    {[x \in {"staging"} |-> json_dump(t)] : t \in ExportTrees}
    \cup {[x \in {"staging"} |-> Malformed]}

ExportEnvs == {"staging", "development", "nofile"}

ExportFormats == {"json", "yaml", "env", "ENV", "xml", ""}

InitExport ==
    /\ \E pre \in ExportDirs : InitCalled(pre, NoBackups)
    /\ environ \in Environs
    /\ \E e \in ExportEnvs, f \in ExportFormats :
         call = [p \in Procs |-> IF p = 1 THEN Called("export", e, f, NoneVal)
                                 ELSE NoCall(files, backups)]

ExportCall(p) ==
    /\ Running(p, "export")
    /\ Returns(p, export_config(files, environ, call[p].env, call[p].arg))

(***************************************************************************)
(* list_backups.                                                           *)
(***************************************************************************)
\* the characters of file names, in code point order
code_points == ".0123456789ABCDEFGHIJKLMNOPQRSTUVWXYZ_abcdefghijklmnopqrstuvwxyz"

ord(c) == CHOOSE i \in 1..Len(code_points) : SubSeq(code_points, i, i) = c

\* a < b for two strings
RECURSIVE str_lt(_, _)
str_lt(a, b) ==
    IF Len(b) = 0 THEN FALSE
    ELSE IF Len(a) = 0 THEN TRUE
    ELSE IF SubSeq(a, 1, 1) # SubSeq(b, 1, 1)
         THEN ord(SubSeq(a, 1, 1)) < ord(SubSeq(b, 1, 1))
    ELSE str_lt(SubSeq(a, 2, Len(a)), SubSeq(b, 2, Len(b)))

\* sorted(names, reverse=True)
RECURSIVE sorted_reverse(_)
sorted_reverse(names) ==
    IF names = {} THEN <<>>
    ELSE LET greatest == CHOOSE x \in names : \A y \in names \ {x} : str_lt(y, x)
         IN  <<greatest>> \o sorted_reverse(names \ {greatest})

\* glob("*_backup_*.json")
any_backup_files(bk) ==
    {f \in DOMAIN bk :
        /\ endswith(f, ".json")
        /\ substring_of("_backup_", SubSeq(f, 1, Len(f) - Len(".json")))}

\* list_backups, lines 422-431; `if environment:` is false for None and ""
list_backups(bk, environment) ==
    LET names == IF environment # "" THEN backup_files(bk, environment)
                 ELSE any_backup_files(bk)
        sorted == sorted_reverse(names)
    IN  L([i \in 1..Len(sorted) |-> S(sorted[i])])

\* names in the backup directory: the backups of two environments and of an
\* environment called production_backup_old, and two files that are no backups
BackupNames ==
    {backup_filename(e, ts) :
        e \in OpEnvs \cup {"production_backup_old"}, ts \in Timestamps}
    \cup {"notes.json", "production_backup_" \o strftime(0) \o ".txt"}

ListDirs == {[f \in names |-> json_dump(EmptyDict)] : names \in SUBSET BackupNames}

\* the filter; "" stands for no filter
ListFilters == {"", "production", "staging"}

InitList ==
    /\ \E bk \in ListDirs : InitCalled(NoFiles, bk)
    /\ environ = [x \in {} |-> ""]
    /\ \E e \in ListFilters :
         call = [p \in Procs |-> IF p = 1 THEN Called("list_backups", e, "", NoneVal)
                                 ELSE NoCall(files, backups)]

ListBackupsCall(p) ==
    /\ Running(p, "list_backups")
    /\ Returns(p, list_backups(backups, call[p].env))

(***************************************************************************)
(* list_environments, load_config and get_config_value as single calls.    *)
(***************************************************************************)
\* sorted(names)
RECURSIVE sorted(_)
sorted(names) ==
    IF names = {} THEN <<>>
    ELSE LET least == CHOOSE x \in names : \A y \in names \ {x} : str_lt(x, y)
         IN  <<least>> \o sorted(names \ {least})

\* list_environments, lines 404-410: the stems of the *.json files, sorted
list_environments(fl) ==
    LET names == sorted(DOMAIN fl)
    IN  L([i \in 1..Len(names) |-> S(names[i])])

\* configuration directories the store is constructed on: any of these files
\* may be there already, production.json with content that is no JSON
EnvDirs ==
    {[x \in names |-> IF x = "production" THEN Malformed ELSE json_dump(EmptyDict)] :
        names \in SUBSET {"staging", "qa", "Alpha", "production", "development"}}

InitListEnvironments ==
    /\ \E pre \in EnvDirs : InitCalled(pre, NoBackups)
    /\ environ = [x \in {} |-> ""]
    /\ call = [p \in Procs |-> IF p = 1 THEN Called("list_environments", "", "", NoneVal)
                               ELSE NoCall(files, backups)]

ListEnvironmentsCall(p) ==
    /\ Running(p, "list_environments")
    /\ Returns(p, list_environments(files))

\* backup directories of the stores that are read
ReadBackups == {NoBackups, [x \in {backup_filename("staging", strftime(0))} |-> Malformed]}

InitLoad ==
    /\ \E pre \in ExportDirs, bk \in ReadBackups : InitCalled(pre, bk)
    /\ environ \in Environs
    /\ \E e \in ExportEnvs :
         call = [p \in Procs |-> IF p = 1 THEN Called("load", e, "", NoneVal)
                                 ELSE NoCall(files, backups)]

\* mutant of LoadOnce: load writes the tree it resolved back to the file
LoadOnceWritesBack(p) ==
    /\ Running(p, "load")
    /\ LET config == load_config(files, environ, call[p].env)
       IN  /\ call' = [call EXCEPT ![p].ret =
                         IF config.exc # "" THEN RaiseVal(config.exc) ELSE config.val]
           /\ files' = IF config.exc # "" THEN files
                       ELSE write_file(files, call[p].env, json_dump(config.val))
    /\ pc' = [pc EXCEPT ![p] = "idle"]
    /\ UNCHANGED <<backups, clock, environ, callers, ncalls, history>>

\* load_config: the tree, or the exception it raises
LoadOnce(p) ==
    /\ Running(p, "load")
    /\ LET config == load_config(files, environ, call[p].env)
       IN  Returns(p, IF config.exc # "" THEN RaiseVal(config.exc) ELSE config.val)

InitGet ==
    /\ \E pre \in ExportDirs, bk \in ReadBackups : InitCalled(pre, bk)
    /\ environ \in Environs
    /\ \E e \in ExportEnvs, kp \in GetPaths \cup {"cache.ttl.seconds", "tls.cert.x"} :
         call = [p \in Procs |-> IF p = 1 THEN Called("get", e, kp, NoneVal)
                                 ELSE NoCall(files, backups)]

\* get_config_value; the key path is the call's second argument
GetOnce(p) ==
    /\ Running(p, "get")
    /\ Returns(p, get_config_value(files, environ, call[p].env, call[p].arg))

\* the directory before the store is constructed on it
InitConstruct ==
    /\ \E pre \in EnvDirs : files = pre
    /\ backups = NoBackups
    /\ clock = 0
    /\ callers = {1}
    /\ ncalls = 0
    /\ history = NoHistory
    /\ environ = [x \in {} |-> ""]
    /\ pc = [p \in Procs |-> IF p = 1 THEN "called" ELSE "idle"]
    /\ call = [p \in Procs |-> IF p = 1 THEN Called("construct", "", "", NoneVal)
                               ELSE NoCall(files, backups)]

\* __init__, lines 26-46: the directories are made if missing and
\* _initialize_default_configs writes the defaults that have no file
ConstructCall(p) ==
    /\ Running(p, "construct")
    /\ files' = initialize_default_configs(files, default_envs)
    /\ pc' = [pc EXCEPT ![p] = "idle"]
    /\ call' = [call EXCEPT ![p].ret = NoneVal]
    /\ UNCHANGED <<backups, clock, environ, callers, ncalls, history>>

ReadInit ==
    \/ InitValidate
    \/ InitCompare
    \/ InitInterpolate
    \/ InitExport
    \/ InitList
    \/ InitListEnvironments
    \/ InitLoad
    \/ InitGet
    \/ InitConstruct

ReadNext ==
    \/ \E p \in Procs : ValidateCall(p)
    \/ \E p \in Procs : CompareCall(p)
    \/ \E p \in Procs : InterpolateCall(p)
    \/ \E p \in Procs : ExportCall(p)
    \/ \E p \in Procs : ListBackupsCall(p)
    \/ \E p \in Procs : ListEnvironmentsCall(p)
    \/ \E p \in Procs : LoadOnce(p)
    \/ \E p \in Procs : GetOnce(p)
    \/ \E p \in Procs : ConstructCall(p)

ReadSpec == ReadInit /\ [][ReadNext]_vars

(***************************************************************************)
(* Vocabulary of the properties.                                           *)
(***************************************************************************)
\* caller p's call of `op` has returned (or raised) and no later call began
Done(p, op) == p \in callers /\ pc[p] = "idle" /\ call[p].op = op

\* the tree stored in a file of directory d, when the file parses
Stored(d, name) == json_load(d[name]).val
Parses(d, name) == name \in DOMAIN d /\ json_load(d[name]).exc = ""

\* a string of the form ${NAME}
IsPlaceholder(v) == v.k = "str" /\ startswith(v.s, "${") /\ endswith(v.s, "}")
PlaceholderName(v) == SubSeq(v.s, 3, Len(v.s) - 1)

\* v contains a placeholder whose name the process environment defines
RECURSIVE HasResolvedPlaceholder(_, _)
HasResolvedPlaceholder(v, env) ==
    CASE v.k = "map" -> \E key \in DOMAIN v.m : HasResolvedPlaceholder(v.m[key], env)
      [] v.k = "seq" -> \E i \in 1..Len(v.l) : HasResolvedPlaceholder(v.l[i], env)
      [] OTHER -> IsPlaceholder(v) /\ PlaceholderName(v) \in DOMAIN env

\* the key paths of a tree (sequences of keys), and the value at a path
RECURSIVE PathsOf(_)
PathsOf(v) ==
    IF v.k # "map" THEN {}
    ELSE UNION {{<<key>>} \cup {<<key>> \o q : q \in PathsOf(v.m[key])} :
                key \in DOMAIN v.m}

RECURSIVE ValueAt(_, _)
ValueAt(v, path) ==
    IF path = <<>> THEN v ELSE ValueAt(v.m[Head(path)], Tail(path))

IsPrefix(a, b) == Len(a) <= Len(b) /\ SubSeq(b, 1, Len(a)) = a

\* how a key path fares in a tree whose root is a mapping
RECURSIVE PathCase(_, _)
PathCase(value, keys) ==
    IF value.k # "map" THEN "intermediate is not a mapping"
    ELSE IF Head(keys) \notin DOMAIN value.m
    THEN IF Len(keys) = 1 THEN "final segment absent"
         ELSE "intermediate absent"
    ELSE IF Len(keys) = 1 THEN "found"
    ELSE PathCase(value.m[Head(keys)], Tail(keys))

(***************************************************************************)
(* Properties.                                                             *)
(***************************************************************************)
\* C1: a save of a tree that the validator does not accept returns False
\* and leaves every live file and every backup as before the call, for
\* either value of the backup flag and whether or not the file exists.
C1_InvalidSaveWritesNothing ==
    \A p \in callers :
        (Done(p, "save") /\ ~is_valid(validate_config(call[p].tree)))
        => /\ call[p].ret = B(FALSE)
           /\ files = call[p].pre_files
           /\ backups = call[p].pre_backups

C1_Witness ==
    \E p \in callers :
        /\ Done(p, "save")
        /\ validate_config(call[p].tree).exc = ""
        /\ Len(validate_config(call[p].tree).errors) > 0
        /\ call[p].flag
        /\ call[p].env \in DOMAIN files
        /\ call[p].ret = B(FALSE)

\* C2: when the live file of E holds tree T1 and save(E, T2, True) returns
\* True, then right after the call some backup of E holds T1.
C2_BackupBeforeOverwrite ==
    \A p \in callers :
        (/\ Done(p, "save") /\ call[p].flag /\ call[p].ret = B(TRUE)
         /\ Parses(call[p].pre_files, call[p].env))
        => \E f \in backup_files(backups, call[p].env) :
               /\ Parses(backups, f)
               /\ Stored(backups, f) = Stored(call[p].pre_files, call[p].env)

C2_Witness ==
    \E p \in callers :
        /\ Done(p, "save") /\ call[p].flag /\ call[p].ret = B(TRUE)
        /\ Parses(call[p].pre_files, call[p].env)
        /\ Stored(call[p].pre_files, call[p].env) # call[p].tree
        /\ Stored(files, call[p].env) = call[p].tree

\* C3: no store operation interpolates what is persisted: a placeholder
\* ${NAME} stored in a file before a save, set, create_backup or restore
\* call, at a path the call does not target, is the same placeholder in
\* that file after the call.  (save and restore replace the whole file of
\* their environment; set targets its key path.)
Targets(c, environment, path) ==
    /\ c.env = environment
    /\ \/ c.op \in {"save", "restore"}
       \/ /\ c.op = "set"
          /\ \/ IsPrefix(split(c.path), path)
             \/ IsPrefix(path, split(c.path))

C3_PlaceholdersStayLiteral ==
    \A p \in callers :
        (pc[p] = "idle" /\ call[p].op \in {"save", "set", "backup", "restore"})
        => \A e \in DOMAIN call[p].pre_files :
             Parses(call[p].pre_files, e)
             => \A q \in PathsOf(Stored(call[p].pre_files, e)) :
                  (/\ IsPlaceholder(ValueAt(Stored(call[p].pre_files, e), q))
                   /\ ~Targets(call[p], e, q))
                  => /\ Parses(files, e)
                     /\ q \in PathsOf(Stored(files, e))
                     /\ ValueAt(Stored(files, e), q)
                          = ValueAt(Stored(call[p].pre_files, e), q)

\* C4: after restore(E, ts) returns True, the live file of E is
\* byte-identical to the content the backup (E, ts) had when restore was
\* called, whatever the clock shows.
C4_RestoreYieldsBackup ==
    \A p \in callers :
        (Done(p, "restore") /\ call[p].ret = B(TRUE))
        => /\ call[p].env \in DOMAIN files
           /\ files[call[p].env]
                = call[p].pre_backups[backup_filename(call[p].env, call[p].ts)]

\* C5: when E has a live file with content C and restore(E, ts) returns
\* True, then right after the call some backup of E has content C.
C5_RestoreKeepsRecoveryPoint ==
    \A p \in callers :
        (/\ Done(p, "restore") /\ call[p].ret = B(TRUE)
         /\ call[p].env \in DOMAIN call[p].pre_files)
        => \E f \in backup_files(backups, call[p].env) :
               backups[f] = call[p].pre_files[call[p].env]

C5_Witness ==
    \E p \in callers :
        /\ Done(p, "restore") /\ call[p].ret = B(TRUE)
        /\ call[p].env \in DOMAIN call[p].pre_files
        /\ files[call[p].env] # call[p].pre_files[call[p].env]

\* C6: in every state of a save over an existing file with the backup flag
\* (set saves that way) and of a restore over an existing file, the live
\* file has been written only if the call's backup was written before: the
\* call's write log has a backup before the live write, and a backup of E
\* holds the content the live file had when the call began.
C6_BackupHappensBeforeWrite ==
    \A p \in callers :
        (/\ call[p].op \in {"save", "set", "restore"}
         /\ call[p].env \in DOMAIN call[p].pre_files
         /\ (call[p].op = "restore" \/ call[p].flag))
        => \A i \in 1..Len(call[p].log) :
             call[p].log[i] = "live"
             => /\ \E j \in 1..(i - 1) : call[p].log[j] = "backup"
                /\ \E f \in backup_files(backups, call[p].env) :
                       backups[f] = call[p].pre_files[call[p].env]

C6_Witness ==
    \E p \in callers :
        /\ pc[p] \in {"save_write", "restore_copy"}
        /\ call[p].log = <<"backup">>
        /\ files = call[p].pre_files
        /\ backups # call[p].pre_backups

\* C7: after save(E, T) returns True for a tree T without a placeholder the
\* process environment resolves, load(E) returns a tree equal to T.
C7_SaveLoadRoundTrip ==
    \A p \in callers :
        (/\ Done(p, "save") /\ call[p].ret = B(TRUE)
         /\ ~HasResolvedPlaceholder(call[p].tree, environ))
        => load_config(files, environ, call[p].env) = Ok(call[p].tree)

C7_Witness ==
    \E p \in callers :
        /\ Done(p, "save") /\ call[p].ret = B(TRUE)
        /\ call[p].tree = placeholder_config
        /\ ~HasResolvedPlaceholder(call[p].tree, environ)
        /\ call[p].env \notin DOMAIN call[p].pre_files

\* C8, as stated: after set(E, p, v) returns True, get(E, p) returns v and
\* a backup of E exists.
C8_SetThenGet ==
    \A p \in callers :
        (Done(p, "set") /\ call[p].ret = B(TRUE))
        => /\ get_config_value(files, environ, call[p].env, call[p].path)
                = call[p].value
           /\ backup_files(backups, call[p].env) # {}

\* C8, amended: after set(E, p, v) returns True a backup of E exists, and
\* get(E, p) returns v when v has no placeholder that the process
\* environment resolves.
C8_SetThenGetUnlessInterpolated ==
    \A p \in callers :
        (Done(p, "set") /\ call[p].ret = B(TRUE))
        => /\ ~HasResolvedPlaceholder(call[p].value, environ)
              => get_config_value(files, environ, call[p].env, call[p].path)
                   = call[p].value
           /\ backup_files(backups, call[p].env) # {}

C8_Witness ==
    \E p \in callers :
        /\ Done(p, "set") /\ call[p].ret = B(TRUE)
        /\ call[p].path = "cache.ttl.seconds"
        /\ ~HasResolvedPlaceholder(call[p].value, environ)
        /\ get_config_value(call[p].pre_files, environ, call[p].env, call[p].path)
             = NoneVal

\* C9: get returns None and raises nothing when E has no file, when an
\* intermediate segment of the path is absent or names a value that is not
\* a mapping, and when the final segment is absent.
C9_GetReturnsAbsent ==
    \A p \in callers :
        Done(p, "get")
        => LET c == call[p]
               config == load_config(c.pre_files, environ, c.env)
           IN  /\ c.env \notin DOMAIN c.pre_files => c.ret = NoneVal
               /\ (config.exc = "" /\ config.val.k = "map"
                   /\ PathCase(config.val, split(c.path)) # "found")
                  => c.ret = NoneVal

\* C10: when set returns False, every live file and every backup is as it
\* was before the call.
C10_FailedSetWritesNothing ==
    \A p \in callers :
        (Done(p, "set") /\ call[p].ret = B(FALSE))
        => /\ files = call[p].pre_files
           /\ backups = call[p].pre_backups

C10_Witness ==
    \E p \in callers :
        /\ Done(p, "set") /\ call[p].ret = B(FALSE)
        /\ Parses(call[p].pre_files, call[p].env)
        /\ call[p].path = "api"
        /\ backup_files(call[p].pre_backups, call[p].env) # {}

(***************************************************************************)
(* C11  restore(E, ts) reports failure whenever no backup file is named    *)
(* exactly by (E, ts), and then it has changed nothing: the live files are *)
(* the ones before the call and no backup was made.                        *)
(***************************************************************************)
C11_RestoreOfUnknownBackupFails ==
    \A p \in Procs :
        (/\ Done(p, "restore")
         /\ backup_filename(call[p].env, call[p].ts) \notin DOMAIN call[p].pre_backups)
        => /\ call[p].ret = B(FALSE)
           /\ files = call[p].pre_files
           /\ backups = call[p].pre_backups

\* a restore was refused although the environment has a backup of another second
C11_Witness ==
    \E p \in Procs :
        /\ Done(p, "restore")
        /\ backup_filename(call[p].env, call[p].ts) \notin DOMAIN call[p].pre_backups
        /\ backup_files(call[p].pre_backups, call[p].env) # {}
        /\ call[p].ret = B(FALSE)

(***************************************************************************)
(* C12  validate(T) returns valid = true with an empty error list exactly  *)
(* when T has the four required sections, each with all its required keys, *)
(* database.port and api.timeout are integers and api.debug is a boolean;  *)
(* for every absent required section the error list holds "Missing         *)
(* required section: <section>" and no "Missing required key" entry of     *)
(* that section; valid is true exactly when the error list is empty.       *)
(***************************************************************************)
RequiredSectionSet == {required_sections[i] : i \in DOMAIN required_sections}

HasRequiredKeys(T, section) ==
    /\ section \in DOMAIN T.m
    /\ T.m[section].k = "map"
    /\ \A i \in DOMAIN required_structure(section) :
         required_structure(section)[i] \in DOMAIN T.m[section].m

WellFormed(T) ==
    /\ \A section \in RequiredSectionSet : HasRequiredKeys(T, section)
    /\ T.m["database"].m["port"].k = "int"
    /\ T.m["api"].m["timeout"].k = "int"
    /\ T.m["api"].m["debug"].k = "bool"

ErrorSet(r) == {r.errors[i] : i \in DOMAIN r.errors}

C12_ValidateContract ==
    \A p \in Procs :
        Done(p, "validate") =>
            LET T == call[p].tree
                r == call[p].ret
            IN  /\ WellFormed(T) <=> (r.k = "tuple" /\ r.is_valid /\ r.errors = <<>>)
                /\ r.k = "tuple" =>
                     /\ r.is_valid <=> (r.errors = <<>>)
                     /\ \A section \in RequiredSectionSet \ DOMAIN T.m :
                          /\ ("Missing required section: " \o section) \in ErrorSet(r)
                          /\ \A e \in ErrorSet(r) :
                               ~startswith(e, "Missing required key: " \o section \o ".")

(***************************************************************************)
(* C13  For existing environments A and B, compare(A, B) is non-empty      *)
(* exactly when their loaded trees differ; for every path of the result    *)
(* the value under A's label is get(A, path), or "MISSING" when the path   *)
(* is absent in A, and likewise for B; a path whose values are equal in    *)
(* both trees never appears.                                               *)
(***************************************************************************)
Loads(d, env, environment) == load_config(d, env, environment).exc = ""
Loaded(d, env, environment) == load_config(d, env, environment).val

\* the value diff shows for a path: what get returns, "MISSING" when absent
Shown(environment, path) ==
    LET g == get_config_value(files, environ, environment, path)
    IN  IF g = NoneVal THEN S("MISSING") ELSE g

\* both environments have a value at the path and the two values are equal
EqualInBoth(A, Bb, path) ==
    LET a == get_config_value(files, environ, A, path)
        b == get_config_value(files, environ, Bb, path)
    IN  a.k \notin {"none", "raise"} /\ a = b

C13_CompareShowsTheDifferences ==
    \A p \in Procs :
        (/\ Done(p, "compare")
         /\ Loads(files, environ, call[p].env)
         /\ Loads(files, environ, call[p].arg))
        => LET A == call[p].env
               Bb == call[p].arg
               r == call[p].ret
           IN  /\ (r # EmptyDict) <=>
                     (Loaded(files, environ, A) # Loaded(files, environ, Bb))
               /\ \A path \in DOMAIN r.m :
                     /\ r.m[path].m["in_" \o A] = Shown(A, path)
                     /\ r.m[path].m["in_" \o Bb] = Shown(Bb, path)
                     /\ ~EqualInBoth(A, Bb, path)

(***************************************************************************)
(* C14  The interpolation pass replaces a string exactly when the string   *)
(* is ${NAME} (it begins with "${", ends with "}" and NAME is what lies    *)
(* between) and NAME is defined in the process environment, and the        *)
(* result is then the looked-up value; a ${NAME} with NAME undefined,      *)
(* every other string and every non-string scalar are unchanged; mappings  *)
(* keep their keys and sequences their length and order.                   *)
(***************************************************************************)
RECURSIVE Interpolated(_, _, _)
Interpolated(in, out, env) ==
    CASE in.k = "map" ->
             /\ out.k = "map"
             /\ DOMAIN out.m = DOMAIN in.m
             /\ \A key \in DOMAIN in.m : Interpolated(in.m[key], out.m[key], env)
      [] in.k = "seq" ->
             /\ out.k = "seq"
             /\ Len(out.l) = Len(in.l)
             /\ \A i \in 1..Len(in.l) : Interpolated(in.l[i], out.l[i], env)
      [] OTHER ->
             IF IsPlaceholder(in) /\ PlaceholderName(in) \in DOMAIN env
             THEN out = S(env[PlaceholderName(in)])
             ELSE out = in

C14_InterpolationPass ==
    \A p \in Procs :
        Done(p, "interpolate") => Interpolated(call[p].tree, call[p].ret, environ)

\* v contains a placeholder whose name the process environment does not define
RECURSIVE HasUnresolvedPlaceholder(_, _)
HasUnresolvedPlaceholder(v, env) ==
    CASE v.k = "map" -> \E key \in DOMAIN v.m : HasUnresolvedPlaceholder(v.m[key], env)
      [] v.k = "seq" -> \E i \in 1..Len(v.l) : HasUnresolvedPlaceholder(v.l[i], env)
      [] OTHER -> IsPlaceholder(v) /\ PlaceholderName(v) \notin DOMAIN env

\* a tree with a defined and an undefined placeholder went through the pass
C14_Witness ==
    \E p \in Procs :
        /\ Done(p, "interpolate")
        /\ HasResolvedPlaceholder(call[p].tree, environ)
        /\ HasUnresolvedPlaceholder(call[p].tree, environ)
        /\ call[p].ret # call[p].tree

(***************************************************************************)
(* C15  export(E, flat-env) emits exactly one line per leaf (a value that  *)
(* is no mapping) of E's loaded tree, the line being                       *)
(* UPPER(k1)_..._UPPER(kn)=<value as string> for the leaf at path          *)
(* k1 ... kn, and no other line; for the sample tree of the tests the      *)
(* output contains DATABASE_HOST=localhost.                                *)
(***************************************************************************)
\* the lines of a text: its pieces between line breaks
RECURSIVE Lines(_)
Lines(text) ==
    IF Len(text) = 0 THEN <<>>
    ELSE IF \E i \in 1..Len(text) : SubSeq(text, i, i) = "\n"
    THEN LET i == CHOOSE i \in 1..Len(text) :
                      /\ SubSeq(text, i, i) = "\n"
                      /\ \A j \in 1..(i - 1) : SubSeq(text, j, j) # "\n"
         IN  <<SubSeq(text, 1, i - 1)>> \o
             (IF i = Len(text) THEN <<"">> ELSE Lines(SubSeq(text, i + 1, Len(text))))
    ELSE <<text>>

LeafPaths(tree) == {q \in PathsOf(tree) : ValueAt(tree, q).k # "map"}

RECURSIVE UpperPath(_)
UpperPath(q) ==
    IF Len(q) = 1 THEN upper(q[1]) ELSE upper(q[1]) \o "_" \o UpperPath(Tail(q))

LeafLine(tree, q) == UpperPath(q) \o "=" \o py_str(ValueAt(tree, q))

\* the text has one line for each leaf of the tree and no other line
OneLinePerLeaf(text, tree) ==
    LET lines == Lines(text)
    IN  /\ Len(lines) = Cardinality(LeafPaths(tree))
        /\ \A q \in LeafPaths(tree) : \E i \in DOMAIN lines : lines[i] = LeafLine(tree, q)
        /\ \A i \in DOMAIN lines : \E q \in LeafPaths(tree) : lines[i] = LeafLine(tree, q)

\* a flat-env export of an environment whose file loads as a mapping
FlatEnvExported(p) ==
    /\ Done(p, "export")
    /\ lower(call[p].arg) = "env"
    /\ Loads(files, environ, call[p].env)
    /\ Loaded(files, environ, call[p].env).k = "map"

SampleLine(p) ==
    Loaded(files, environ, call[p].env) = sample_config
    => \E i \in DOMAIN Lines(call[p].ret.s) :
          Lines(call[p].ret.s)[i] = "DATABASE_HOST=localhost"

C15_FlatEnvOneLinePerLeaf ==
    \A p \in Procs :
        FlatEnvExported(p)
        => /\ call[p].ret.k = "str"
           /\ OneLinePerLeaf(call[p].ret.s, Loaded(files, environ, call[p].env))
           /\ SampleLine(p)

\* no leaf of the tree is written with a line break in it
SingleLineLeaves(tree) ==
    \A q \in LeafPaths(tree) : ~substring_of("\n", py_str(ValueAt(tree, q)))

\* C15 as amended: the same, for trees whose leaves are written without a
\* line break
C15_FlatEnvOneLinePerSingleLineLeaf ==
    \A p \in Procs :
        (FlatEnvExported(p) /\ SingleLineLeaves(Loaded(files, environ, call[p].env)))
        => /\ call[p].ret.k = "str"
           /\ OneLinePerLeaf(call[p].ret.s, Loaded(files, environ, call[p].env))
           /\ SampleLine(p)

\* a tree with a leaf three levels down, a list and an empty mapping was
\* exported
C15_Witness ==
    \E p \in Procs :
        /\ FlatEnvExported(p)
        /\ \E i \in DOMAIN Lines(call[p].ret.s) :
              Lines(call[p].ret.s)[i] = "CACHE_TTL_SECONDS=5"
        /\ \E i \in DOMAIN Lines(call[p].ret.s) :
              Lines(call[p].ret.s)[i] = "HOSTS=['a', 1, True, {'kk': None}]"
        /\ \E i \in DOMAIN Lines(call[p].ret.s) :
              Lines(call[p].ret.s)[i] = "MIXED_KEY9=False"
        /\ Len(Lines(call[p].ret.s)) = 5

(***************************************************************************)
(* C18  export(E, format) with a format outside {native, readable,         *)
(* flat-env} ends in a failure the caller can tell from every successful   *)
(* export result.                                                          *)
(***************************************************************************)
SupportedFormats == {"json", "yaml", "env"}

\* what the exports of the environments that load return in the supported formats
SuccessfulExports ==
    {export_config(initialize_default_configs(pre, default_envs), env, e, f) :
        pre \in {d \in ExportDirs : d["staging"] # Malformed}, env \in Environs,
        e \in {"staging", "development"}, f \in SupportedFormats}

C18_UnsupportedFormatFailsDistinctly ==
    \A p \in Procs :
        (Done(p, "export") /\ lower(call[p].arg) \notin SupportedFormats)
        => call[p].ret \notin SuccessfulExports

(***************************************************************************)
(* C16  A backup is immutable: once the backup of (environment, timestamp) *)
(* exists, no later operation of the store (save, set, create backup,      *)
(* restore) changes its content.                                           *)
(***************************************************************************)
C16_BackupsNeverChange ==
    [][\A f \in DOMAIN backups : f \in DOMAIN backups' /\ backups'[f] = backups[f]]_vars

\* C16 as amended: a backup stays, and its content changes only in the
\* second its timestamp names, by a backup of the same environment
C16_BackupsChangeOnlyInTheirSecond ==
    [][\A f \in DOMAIN backups :
          /\ f \in DOMAIN backups'
          /\ backups'[f] # backups[f]
             => \E p \in Procs :
                   /\ pc[p] \in {"idle", "save_backup", "restore_backup"}
                   /\ f = call'[p].env \o "_backup_" \o strftime(clock) \o ".json"]_vars

\* a backup of an earlier second is still what it was after a later call
\* wrote another backup
C16_Witness ==
    \E p \in Procs, f \in DOMAIN backups :
        /\ pc[p] = "idle"
        /\ call[p].op \in {"save", "set", "backup", "restore"}
        /\ f \in DOMAIN call[p].pre_backups
        /\ backups[f] = call[p].pre_backups[f]
        /\ DOMAIN backups # DOMAIN call[p].pre_backups
        /\ startswith(f, call[p].env \o "_backup_")

(***************************************************************************)
(* C17  set never fails because of the shape of the tree along the path:   *)
(* it makes an empty mapping for every missing intermediate segment, and   *)
(* an intermediate segment that holds a non-mapping value (database.host   *)
(* in set(E, "database.host.x", v)) is replaced by a mapping under which v *)
(* is assigned.                                                            *)
(***************************************************************************)
AsMapping(v) == IF v.k = "map" THEN v ELSE EmptyDict

\* the tree with v at the path, intermediate segments made mappings
RECURSIVE Assigned(_, _, _)
Assigned(tree, keys, v) ==
    LET current == AsMapping(tree)
    IN  IF Len(keys) = 1 THEN dict_setitem(current, keys[1], v)
        ELSE dict_setitem(current, keys[1],
               Assigned(IF keys[1] \in DOMAIN current.m THEN current.m[keys[1]]
                        ELSE EmptyDict,
                        Tail(keys), v))

C17_SetNeverFailsOnShape ==
    \A p \in Procs :
        (/\ Done(p, "set")
         /\ Loads(call[p].pre_files, environ, call[p].env)
         /\ is_valid(validate_config(
              Assigned(Loaded(call[p].pre_files, environ, call[p].env),
                       split(call[p].path), call[p].value))))
        => /\ call[p].ret = B(TRUE)
           /\ Parses(files, call[p].env)
           /\ Stored(files, call[p].env) =
                Assigned(Loaded(call[p].pre_files, environ, call[p].env),
                         split(call[p].path), call[p].value)

(***************************************************************************)
(* C19  create-backup(E) reports failure and makes no backup when E has no *)
(* file; when E has a file it succeeds, and right after the call the       *)
(* backup named by (E, current second) exists with the bytes of E's live   *)
(* file, and E's live file is unchanged.                                   *)
(***************************************************************************)
C19_CreateBackupContract ==
    [][\A p \in Procs :
          (call'[p] # call[p] /\ call'[p].op = "backup")
          => LET E == call'[p].env
                 name == E \o "_backup_" \o strftime(clock) \o ".json"
             IN  /\ files' = files
                 /\ E \notin DOMAIN files
                    => call'[p].ret = B(FALSE) /\ backups' = backups
                 /\ E \in DOMAIN files
                    => /\ call'[p].ret = B(TRUE)
                       /\ name \in DOMAIN backups'
                       /\ backups'[name] = files'[E]
                       /\ \A f \in DOMAIN backups \ {name} :
                             f \in DOMAIN backups' /\ backups'[f] = backups[f]]_vars

\* a backup call copied a live file that a save had written
C19_Witness ==
    \E p \in Procs :
        /\ Done(p, "backup")
        /\ call[p].ret = B(TRUE)
        /\ call[p].env = "staging"
        /\ Parses(files, "staging")

(***************************************************************************)
(* C20  list-backups, with or without an environment filter, returns the   *)
(* backup identifiers most recent first: of any two backups in the result  *)
(* the one with the later timestamp comes before the one with the earlier. *)
(***************************************************************************)
\* the second a backup file name carries
SecondOf(name) ==
    CHOOSE n \in 0..MaxClock : endswith(name, "_" \o strftime(n) \o ".json")

C20_MostRecentFirst ==
    \A p \in Procs :
        Done(p, "list_backups") =>
            LET r == call[p].ret.l
            IN  \A i \in DOMAIN r, j \in DOMAIN r :
                    SecondOf(r[i].s) > SecondOf(r[j].s) => i < j

(***************************************************************************)
(* C21  Provided no two backups of an environment are made within one      *)
(* clock second, after any sequence of save(backupFirst=true), set and     *)
(* restore every content that was once the live file of environment E and  *)
(* was then overwritten by one of these operations is still the content of *)
(* some backup of E.                                                       *)
(***************************************************************************)
C21_OverwrittenContentIsBackedUp ==
    \A o \in history.overwritten :
        o[1] \notin history.collided
        => \E f \in backup_files(backups, o[1]) : backups[f] = o[2]

\* two contents of one environment were overwritten in different seconds
C21_Witness ==
    \E E \in OpEnvs :
        /\ E \notin history.collided
        /\ Cardinality({o \in history.overwritten : o[1] = E}) >= 2
        /\ \E p \in Procs : Done(p, "restore") \/ Done(p, "set") \/ Done(p, "save")

(***************************************************************************)
(* C22  From a freshly bootstrapped store, with no file changed from       *)
(* outside, after any sequence of save, set, create-backup and restore     *)
(* every live file and every backup file holds a tree that the validator   *)
(* reports valid.                                                          *)
(***************************************************************************)
HoldsValidTree(d, name) ==
    /\ Parses(d, name)
    /\ is_valid(validate_config(Stored(d, name)))

C22_EveryFileIsValid ==
    /\ \A E \in DOMAIN files : HoldsValidTree(files, E)
    /\ \A f \in DOMAIN backups : HoldsValidTree(backups, f)

\* a set succeeded on an environment that a save had created, and made a
\* backup of it
C22_Witness ==
    \E p \in Procs :
        /\ Done(p, "set")
        /\ call[p].ret = B(TRUE)
        /\ call[p].env = "staging"
        /\ backup_files(backups, "staging") # {}

(***************************************************************************)
(* C23  The read-only operations load, get, compare, export, validate,     *)
(* list-environments and list-backups leave every live file and every      *)
(* backup file unchanged, whether they succeed or fail.                    *)
(***************************************************************************)
ReadOnlyOps == {"load", "get", "compare", "export", "validate",
                "list_environments", "list_backups"}

C23_ReadOnlyOperationsChangeNoFile ==
    \A p \in Procs :
        (p \in callers /\ pc[p] = "idle" /\ call[p].op \in ReadOnlyOps)
        => files = call[p].pre_files /\ backups = call[p].pre_backups

\* a load failed on a file that is no JSON, in a store that has a backup
C23_Witness ==
    \E p \in Procs :
        /\ Done(p, "load")
        /\ call[p].ret = RaiseVal("JSONDecodeError")
        /\ backups # NoBackups

(***************************************************************************)
(* C24  A successful save(E, T, backupFirst) makes a backup exactly when   *)
(* backupFirst is true and E had a live file before the call; it makes no  *)
(* backup when backupFirst is false or E had no file; and in every case it *)
(* changes no live file and no backup of an environment other than E.      *)
(***************************************************************************)
IsBackupOf(f, E) == startswith(f, E \o "_backup_")

C24_SaveFrame ==
    \A p \in Procs :
        (Done(p, "save") /\ call[p].ret = B(TRUE))
        => LET E == call[p].env
               pre == call[p].pre_files
               pre_bk == call[p].pre_backups
           IN  /\ (call[p].flag /\ E \in DOMAIN pre)
                  => /\ "backup" \in {call[p].log[i] : i \in DOMAIN call[p].log}
                     /\ \E f \in DOMAIN backups : IsBackupOf(f, E) /\ backups[f] = pre[E]
               /\ ~(call[p].flag /\ E \in DOMAIN pre) => backups = pre_bk
               /\ DOMAIN files \ {E} = DOMAIN pre \ {E}
               /\ \A E2 \in DOMAIN pre \ {E} : files[E2] = pre[E2]
               /\ \A f \in DOMAIN pre_bk :
                     ~IsBackupOf(f, E) => f \in DOMAIN backups /\ backups[f] = pre_bk[f]
               /\ \A f \in DOMAIN backups \ DOMAIN pre_bk : IsBackupOf(f, E)

\* a save without backup overwrote the file of an environment while another
\* environment had a backup
C24_Witness ==
    \E p \in Procs :
        /\ Done(p, "save")
        /\ call[p].ret = B(TRUE)
        /\ ~call[p].flag
        /\ call[p].env \in DOMAIN call[p].pre_files
        /\ files[call[p].env] # call[p].pre_files[call[p].env]
        /\ \E f \in DOMAIN backups : ~IsBackupOf(f, call[p].env)

(***************************************************************************)
(* C25  Constructing a store writes the built-in default tree only for     *)
(* those of development, testing and production that have no file yet; a   *)
(* default environment's file that exists, whatever it holds, is left as   *)
(* it is; and after construction list-environments returns a sorted list   *)
(* holding the three default names and every other environment with a file.*)
(***************************************************************************)
DefaultNames == {default_envs[i] : i \in DOMAIN default_envs}

C25_BootstrapWritesMissingDefaultsOnly ==
    \A p \in Procs :
        Done(p, "construct")
        => LET pre == call[p].pre_files
               listed == list_environments(files).l
           IN  /\ \A E \in DOMAIN pre : E \in DOMAIN files /\ files[E] = pre[E]
               /\ \A E \in DefaultNames \ DOMAIN pre :
                     E \in DOMAIN files /\ files[E] = json_dump(default_configs(E))
               /\ DOMAIN files = DOMAIN pre \cup DefaultNames
               /\ \A i, j \in DOMAIN listed : i < j => str_lt(listed[i].s, listed[j].s)
               /\ {listed[i].s : i \in DOMAIN listed} = DefaultNames \cup DOMAIN pre

\* constructed on a directory with an unreadable production.json, two other
\* environments and no development.json
C25_Witness ==
    \E p \in Procs :
        /\ Done(p, "construct")
        /\ DOMAIN call[p].pre_files = {"production", "Alpha", "staging"}
        /\ files["production"] = Malformed
        /\ files["development"] = json_dump(default_configs("development"))
        /\ list_environments(files).l[1] = S("Alpha")

(***************************************************************************)
(* C26  validate never raises: for every tree, also one in which a         *)
(* required section name is bound to a value that is no mapping (an        *)
(* integer, a boolean, a string, a sequence), validate returns a           *)
(* (valid, errors) pair.                                                   *)
(***************************************************************************)
C26_ValidateNeverRaises ==
    \A p \in Procs : Done(p, "validate") => call[p].ret.k = "tuple"

(***************************************************************************)
(* C27  Whenever database.port is present and is no integer the error list *)
(* holds "database.port must be an integer"; the same for api.timeout; and *)
(* whenever api.debug is present and is no boolean the error list holds    *)
(* "api.debug must be a boolean"; also when other required keys of the     *)
(* section are missing.                                                    *)
(***************************************************************************)
\* section.key is present in T
Present(T, section, key) ==
    /\ section \in DOMAIN T.m
    /\ T.m[section].k = "map"
    /\ key \in DOMAIN T.m[section].m

C27_TypeChecksRejectNonIntegers ==
    \A p \in Procs :
        (Done(p, "validate") /\ call[p].ret.k = "tuple")
        => LET T == call[p].tree
               errors == ErrorSet(call[p].ret)
           IN  /\ (Present(T, "database", "port") /\ T.m["database"].m["port"].k # "int")
                  => "database.port must be an integer" \in errors
               /\ (Present(T, "api", "timeout") /\ T.m["api"].m["timeout"].k # "int")
                  => "api.timeout must be an integer" \in errors
               /\ (Present(T, "api", "debug") /\ T.m["api"].m["debug"].k # "bool")
                  => "api.debug must be a boolean" \in errors

(***************************************************************************)
(* C28  Two callers that interleave set(E, p1, v1) and set(E, p2, v2) on   *)
(* one environment with different paths race with last-write-wins: once    *)
(* no write is going on, the live file is exactly the tree written by the  *)
(* caller that wrote last.                                                 *)
(***************************************************************************)
Writing(p) == pc[p] \in {"save_write", "save_dump"}

C28_LastWriteWins ==
    (history.written # <<>> /\ \A p \in Procs : ~Writing(p))
    => files[history.written[1]] = history.written[2]

\* both calls reported success and the file lacks one caller's update
LostUpdate ==
    \E p, q \in Procs :
        /\ p # q
        /\ Done(p, "set") /\ call[p].ret = B(TRUE)
        /\ Done(q, "set") /\ call[q].ret = B(TRUE)
        /\ call[p].path # call[q].path
        /\ files[RaceEnv] = json_dump(call[q].tree)
        /\ get_config_value(files, environ, RaceEnv, call[p].path) # call[p].value

====
